---- MODULE Spec2Model ----
(***************************************************************************)
(* Model of the Imou PTZ camera channel/entity core                        *)
(* (custom_components/imou_cam_ptz/imouapi/channel.py, channel_entity.py). *)
(*                                                                         *)
(* A channel is a record with the attributes of ImouCamChannel.  Logical   *)
(* tasks (asyncio coroutines) run the operations; a task is suspended at   *)
(* every await of a remote call and is resumed by AwaitReturns, which      *)
(* draws the remote answer (a payload or a raised exception) and runs the  *)
(* coroutine up to its next await or to its end.  The code between two     *)
(* awaits is atomic (single-threaded cooperative scheduling).  A task's pc *)
(* names the source line of the await it is suspended at.                  *)
(***************************************************************************)
EXTENDS Integers, Sequences, FiniteSets, TLC

VARIABLES chan,      \* the ImouCamChannel object
          task,      \* per logical task: the operation it runs and where
          inits,     \* history: how many times async_initialize was entered
          forwarded  \* the setup of the config entry has handed the
                     \* entities of the channel to the host's platforms

vars == <<chan, task, inits, forwarded>>

----------------------------------------------------------------------------
(* Bounds *)

\* longest preset ("collection") list the cloud returns
MaxPresets == 2
\* how many times async_initialize may be entered (the entity lists grow)
MaxInit == 2
\* how many entities the host enables and operates
MaxActive == 1

\* how many devices the account of the discovery holds at most
MaxDevices == 3

\* the logical tasks of a host that runs one operation at a time
OneTask == {"t1"}
\* two logical tasks of one event loop
TwoTasks == {"t1", "t2"}

----------------------------------------------------------------------------
(* Constants of the program *)

\* imouapi/const.py
WAIT_AFTER_WAKE_UP == 4

ONLINE_STATUS ==
    ("0" :> "Offline") @@ ("1" :> "Online") @@ ("4" :> "Dormant")
        @@ ("UNKNOWN" :> "Unknown")

BUTTONS == [restartDevice |-> "Restart device", turnCollection |-> "Turn to"]
SENSORS == [status |-> "Status"]
SELECTS == [turnCollection |-> "Turn to favourite point"]

\* the first option of a select, channel_entity.py line 240; the module is
\* written in ASCII, so each of the two arrows (U+2B07) of the source's
\* string stands here as its escape sequence
Sentinel == "\\u2b07 Select a point \\u2b07"

\* the channel under study and another channel of the same device
DeviceId == "D1"
ChannelId == "C1"
OtherChannelId == "C2"

\* the ImouException family (imouapi/exceptions.py, as imported)
ImouException == {"InvalidResponse", "APIError", "NotConnected"}
\* the kinds a remote call is drawn to fail with: NotConnected is handled
\* everywhere as APIError is
RemoteFailures == {"InvalidResponse", "APIError"}

----------------------------------------------------------------------------
(* What the cloud may answer.  A Python dict is a function whose DOMAIN    *)
(* is its key set, so that a missing key is a key not in the DOMAIN.       *)

HasKey(d, k) == k \in DOMAIN d

NoData == [nothing |-> TRUE]
Ok(data) == [exc |-> "none", data |-> data]
Raises(kind) == [exc |-> kind, data |-> NoData]
Failures == {Raises(k) : k \in RemoteFailures}

\* online codes: the recognized ones and one the table does not know
Codes == DOMAIN ONLINE_STATUS \cup {"9"}
\* the device-level codes the answers are drawn with
DeviceCodes == {"0", "1", "9"}

ThisChannelOnline ==
    {[channelId |-> ChannelId, onLine |-> c] : c \in Codes}
        \cup {[channelId |-> ChannelId]}
OtherChannelOnline == [channelId |-> OtherChannelId, onLine |-> "1"]

\* a sub-record that does not say which channel it is about
AnonymousOnline == [onLine |-> "1"]

\* the channel list: without this channel, with it after another one, or
\* with it after a sub-record that has no channelId
ChannelsOnline ==
    {<<>>, <<OtherChannelOnline>>}
        \cup {<<OtherChannelOnline, c>> : c \in ThisChannelOnline}
        \cup {<<AnonymousOnline, [channelId |-> ChannelId, onLine |-> "4"]>>}

\* answers of async_api_deviceOnline
OnlinePayloads ==
    {[onLine |-> t, channels |-> cs] : t \in DeviceCodes, cs \in ChannelsOnline}
        \cup {[channels |-> cs] : cs \in ChannelsOnline}
        \cup {[onLine |-> t] : t \in DeviceCodes}

ChannelDetail(id, name) ==
    [channelId |-> id, channelName |-> name, deviceId |-> DeviceId]
GoodDevice ==
    [name |-> "Home", deviceModel |-> "X1",
     channels |-> <<ChannelDetail(OtherChannelId, "Cam2"),
                    ChannelDetail(ChannelId, "Cam1")>>]

\* answers of async_api_deviceBaseDetailList: no device list, a list of
\* none or of two devices, the device, the device without this channel,
\* the device without its name, and the device with a channel record that
\* has no channelId before the record of this channel
DetailPayloads ==
    { [count |-> 0],
      [deviceList |-> <<>>],
      [deviceList |-> <<GoodDevice, GoodDevice>>],
      [deviceList |-> <<GoodDevice>>],
      [deviceList |-> <<[GoodDevice EXCEPT !.channels =
                            <<ChannelDetail(OtherChannelId, "Cam2")>>]>>],
      [deviceList |-> <<[deviceModel |-> "X1",
                         channels |-> GoodDevice.channels]>>],
      [deviceList |-> <<[GoodDevice EXCEPT !.channels =
                            <<[channelName |-> "Cam0"],
                              ChannelDetail(ChannelId, "Cam1")>>]>>] }

\* the name of the i-th preset of the camera
PresetName(i) == CASE i = 1 -> "P1" [] i = 2 -> "P2" [] OTHER -> "P3"
PresetNames == {PresetName(i) : i \in 1..MaxPresets}

\* the n presets of the camera as the cloud lists them: in the order of
\* their names, or in the opposite order
Ascending(n) == [i \in 1..n |-> [name |-> PresetName(i)]]
Descending(n) == [i \in 1..n |-> [name |-> PresetName(n + 1 - i)]]
PresetLists ==
    {Ascending(n) : n \in 0..MaxPresets}
        \cup {Descending(n) : n \in 0..MaxPresets}

\* a preset list whose second record has no name
HalfNamed == <<[name |-> PresetName(1)], [image |-> "none"]>>

\* answers of async_api_getCollection: a preset list, a list with a
\* record that has no name, or no list at all
CollectionPayloads ==
    {[collections |-> cs] : cs \in PresetLists}
        \cup {[collections |-> HalfNamed], [count |-> 0]}

\* the devices of the account the discovery enumerates: the i-th device,
\* its name, and its channels (two for the first device, one for the others)
Device(i) == CASE i = 1 -> DeviceId [] i = 2 -> "D2" [] i = 3 -> "D3" [] OTHER -> "D4"
DeviceName(id) == CASE id = DeviceId -> "Home" [] id = "D2" -> "Yard" [] id = "D3" -> "Gate" [] OTHER -> "Shed"
ChannelsOf(id) ==
    IF id = DeviceId
    THEN <<[channelId |-> OtherChannelId, channelName |-> "Cam2", deviceId |-> id],
           [channelId |-> ChannelId, channelName |-> "Cam1", deviceId |-> id]>>
    ELSE <<[channelId |-> ChannelId, channelName |-> "Cam1", deviceId |-> id]>>

\* the answer of async_api_deviceBaseList for an account of n devices
Registered(n) == [i \in 1..n |-> [deviceId |-> Device(i)]]
DeviceListPayloads ==
    {[count |-> n, deviceList |-> Registered(n)] : n \in 0..MaxDevices}
        \cup {[deviceList |-> Registered(1)]}

\* the detail of a device, and the same with channel records that name
\* the channel only (channelId, channelName)
DeviceDetail(id) ==
    [deviceId |-> id, name |-> DeviceName(id), deviceModel |-> "X1",
     channels |-> ChannelsOf(id)]
NamedOnly(cs) ==
    [i \in 1..Len(cs) |->
        [channelId |-> cs[i].channelId, channelName |-> cs[i].channelName]]
BareDetail(id) == [DeviceDetail(id) EXCEPT !.channels = NamedOnly(@)]

----------------------------------------------------------------------------
(* Entities: channel_entity.py *)

\* ImouEntity.__init__, lines 22-41
ImouEntity(kind, device_id, channel_id, sensor_type, sensor_param, descr) ==
    [kind |-> kind, device_id |-> device_id, channel_id |-> channel_id,
     sensor_type |-> sensor_type, sensor_param |-> sensor_param,
     description |-> descr, enabled |-> TRUE, updated |-> FALSE,
     has_device |-> FALSE]

\* ImouSensor.__init__, lines 104-123
ImouSensor(device_id, channel_id, sensor_type, sensor_param) ==
    ImouEntity("sensor", device_id, channel_id, sensor_type, sensor_param,
               SENSORS[sensor_type] \o " " \o sensor_param)
        @@ [state |-> "None"]

\* ImouButton.__init__, lines 161-178
ImouButton(device_id, channel_id, sensor_type, sensor_param) ==
    ImouEntity("button", device_id, channel_id, sensor_type, sensor_param,
               BUTTONS[sensor_type] \o " " \o sensor_param)

\* ImouSelect.__init__, lines 209-229
ImouSelect(device_id, channel_id, sensor_type, sensor_param) ==
    ImouEntity("select", device_id, channel_id, sensor_type, sensor_param,
               SELECTS[sensor_type] \o " " \o sensor_param)
        @@ [current_option |-> "None", available_options |-> <<>>]

----------------------------------------------------------------------------
(* The channel: channel.py *)

\* a variant of the constructor for a camera that can sleep
ImouCamChannelSleepable(device_id, channel_id) ==
    [device_id |-> device_id, channel_id |-> channel_id,
     status |-> "unknown",
     channel_name |-> "N.A", device_name |-> "N.A", device_model |-> "N.A",
     full_name |-> "N.A", given_name |-> "",
     collections |-> <<>>,
     sensor_instances |-> [sensor |-> <<>>, button |-> <<>>, select |-> <<>>],
     initialized |-> FALSE, enabled |-> TRUE, sleepable |-> TRUE,
     wait_after_wakeup |-> WAIT_AFTER_WAKE_UP]

\* ImouCamChannel.__init__, lines 30-68
ImouCamChannel(device_id, channel_id) ==
    [device_id |-> device_id, channel_id |-> channel_id,
     status |-> "unknown",
     channel_name |-> "N.A", device_name |-> "N.A", device_model |-> "N.A",
     full_name |-> "N.A", given_name |-> "",
     collections |-> <<>>,
     sensor_instances |-> [sensor |-> <<>>, button |-> <<>>, select |-> <<>>],
     initialized |-> FALSE, enabled |-> TRUE, sleepable |-> FALSE,
     wait_after_wakeup |-> WAIT_AFTER_WAKE_UP]

\* get_name, lines 86-90
get_name(ch) == IF ch.given_name # "" THEN ch.given_name ELSE ch.full_name

\* is_online, lines 108-110: the table lookup fails on a status it lacks
is_online(ch) ==
    IF ch.status \notin DOMAIN ONLINE_STATUS THEN "KeyError"
    ELSE IF ONLINE_STATUS[ch.status] = "Online"
            \/ ONLINE_STATUS[ch.status] = "Dormant" THEN "True"
    ELSE "False"

\* get_all_sensors, lines 132-141: the platforms in the dict's order
get_all_sensors(ch) ==
    ch.sensor_instances.sensor \o ch.sensor_instances.button
        \o ch.sensor_instances.select

\* ImouEntity.set_device, channel_entity.py lines 75-77: attached is
\* whether the instance given is a channel (TRUE) or None (FALSE)
set_device(e, attached) == [e EXCEPT !.has_device = attached]

\* _add_sensor_instance, lines 167-170
add_sensor_instance(ch, platform, instance) ==
    [ch EXCEPT !.sensor_instances[platform] =
                   Append(@, set_device(instance, TRUE))]

\* next((c for c in channels if c.get("channelId") == id), None): the
\* matching sub-records, the first of which is the result
Matching(channels, id) ==
    SelectSeq(channels, LAMBDA c : HasKey(c, "channelId") /\ c.channelId = id)

\* next((c for c in channels if c["channelId"] == id), None): the scan
\* stops at the first record that matches, or raises KeyError at the first
\* record without a channelId if that one comes earlier
Subscripted(channels, id) ==
    LET hit(i) ==
            HasKey(channels[i], "channelId") /\ channels[i].channelId = id
        stops == {i \in 1..Len(channels) :
                     ~HasKey(channels[i], "channelId") \/ hit(i)}
    IN  IF stops = {} THEN [exc |-> "none", found |-> <<>>]
        ELSE LET i == CHOOSE k \in stops : \A j \in stops : k <= j IN
             IF hit(i) THEN [exc |-> "none", found |-> <<channels[i]>>]
             ELSE [exc |-> "KeyError", found |-> <<>>]

----------------------------------------------------------------------------
(* Tasks.  A task record holds the running operation (op), the await it is *)
(* suspended at (pc), the entity and the argument of the operation, its    *)
(* outcome (result: the returned value, or the name of the raised          *)
(* exception), and a history of what this invocation did: the remote calls *)
(* it issued (calls), the last answer it received, when observed (resp),   *)
(* the statuses its own refreshes stored (stored), what                    *)
(* async_wakeup returned to it (awake), the entity's enabled flag when it  *)
(* started (enabled0), and the channel attributes its own steps changed    *)
(* (touched).                                                              *)

NoEnt == [platform |-> "none", idx |-> 0]

IdleTask ==
    [op |-> "idle", pc |-> "idle", ent |-> NoEnt, arg |-> "",
     result |-> "none", calls |-> <<>>, resp |-> Ok(NoData), stored |-> <<>>,
     awake |-> "none", enabled0 |-> "none",
     touched |-> {}]

GetEnt(ch, ref) == ch.sensor_instances[ref.platform][ref.idx]
SetEnt(ch, ref, e) ==
    [ch EXCEPT !.sensor_instances[ref.platform][ref.idx] = e]

Platforms == {"sensor", "button", "select"}
EntityRefs(ch) ==
    UNION {{[platform |-> p, idx |-> i] :
               i \in 1..Len(ch.sensor_instances[p])} : p \in Platforms}

\* the operation is suspended at the await of a remote call
Issue(ch, tk, api, args, pc) ==
    [ch |-> ch,
     tk |-> [tk EXCEPT !.calls = Append(@, [api |-> api, args |-> args]),
                       !.pc = pc]]

\* the operation ends: it returns val, or val is the exception it raises
Return(ch, tk, val) ==
    [ch |-> ch, tk |-> [tk EXCEPT !.pc = "done", !.result = val]]

----------------------------------------------------------------------------
(* Entity operations, from the readiness gate on: channel_entity.py *)

\* a variant without lines 151-152, 198-199, 251-252: the flag is left
LeaveUpdated(e) == e

\* lines 151-152, 198-199, 251-252
MarkUpdated(e) == IF ~e.updated THEN [e EXCEPT !.updated = TRUE] ELSE e

\* ImouSensor.async_update once ready, lines 130-133 (and 145-152 for a
\* sensor type other than "status")
sensor_update_ready(ch, tk) ==
    LET e == GetEnt(ch, tk.ent) IN
    IF e.sensor_type = "status"
    THEN Issue(ch, tk, "deviceOnline", <<e.device_id>>, "sensor:133")
    ELSE Return(SetEnt(ch, tk.ent, MarkUpdated(e)), tk, "None")

\* the state ImouSensor.async_update resolves from the payload, lines
\* 134-143; "InvalidResponse" and "KeyError" are raised instead
sensor_state(e, device_data) ==
    IF ~HasKey(device_data, "onLine") THEN "InvalidResponse"
    ELSE IF device_data.onLine \in DOMAIN ONLINE_STATUS
    THEN IF ~HasKey(device_data, "channels") THEN "KeyError"
         ELSE LET scan == Subscripted(device_data.channels, e.channel_id)
                  found == scan.found
              IN
              IF scan.exc # "none" THEN scan.exc
              ELSE IF found # <<>>
              THEN IF ~HasKey(found[1], "onLine") THEN "KeyError"
                   ELSE IF found[1].onLine \in DOMAIN ONLINE_STATUS
                   THEN ONLINE_STATUS[found[1].onLine]
                   ELSE ONLINE_STATUS["UNKNOWN"]
              ELSE ONLINE_STATUS["UNKNOWN"]
    ELSE ONLINE_STATUS["UNKNOWN"]

\* ImouSensor.async_update after the await of line 133, lines 134-152
sensor_update_resume(ch, tk, resp) ==
    LET e == GetEnt(ch, tk.ent) IN
    IF resp.exc # "none" THEN Return(ch, tk, resp.exc)
    ELSE LET st == sensor_state(e, resp.data) IN
         IF st \in {"InvalidResponse", "KeyError"} THEN Return(ch, tk, st)
         ELSE Return(SetEnt(ch, tk.ent, MarkUpdated([e EXCEPT !.state = st])),
                     tk, "None")

\* a variant without the dispatch of lines 185-191: every button restarts
button_press_ready_restart(ch, tk) ==
    LET e == GetEnt(ch, tk.ent) IN
    Issue(ch, tk, "restartDevice", <<e.device_id>>, "button:187")

\* ImouButton.async_press once ready, lines 185-191 (193-199 for a type
\* that is neither)
button_press_ready(ch, tk) ==
    LET e == GetEnt(ch, tk.ent) IN
    IF e.sensor_type = "restartDevice"
    THEN Issue(ch, tk, "restartDevice", <<e.device_id>>, "button:187")
    ELSE IF e.sensor_type = "turnCollection"
    THEN Issue(ch, tk, "turnCollection",
               <<e.device_id, e.channel_id, e.sensor_param>>, "button:191")
    ELSE Return(SetEnt(ch, tk.ent, MarkUpdated(e)), tk, "None")

\* ImouButton.async_press after the await of line 187 or 191, lines 193-199
button_press_resume(ch, tk, resp) ==
    LET e == GetEnt(ch, tk.ent) IN
    IF resp.exc # "none" THEN Return(ch, tk, resp.exc)
    ELSE Return(SetEnt(ch, tk.ent, MarkUpdated(e)), tk, "None")

\* ImouSelect.async_update once ready, lines 236-238
select_update_ready(ch, tk) ==
    LET e == GetEnt(ch, tk.ent) IN
    IF e.sensor_type = "turnCollection"
    THEN Issue(ch, tk, "getCollection", <<e.device_id, e.channel_id>>,
               "select:238")
    ELSE Return(SetEnt(ch, tk.ent, MarkUpdated(e)), tk, "None")

\* [c["name"] for c in collections]
Names(collections) == [i \in 1..Len(collections) |-> collections[i].name]
AllNamed(collections) ==
    \A i \in 1..Len(collections) : HasKey(collections[i], "name")

\* a variant without line 243: the selection survives the update
select_update_resume_sticky(ch, tk, resp) ==
    LET e == GetEnt(ch, tk.ent) IN
    IF resp.exc # "none" THEN Return(ch, tk, resp.exc)
    ELSE IF ~HasKey(resp.data, "collections") THEN Return(ch, tk, "KeyError")
    ELSE IF ~AllNamed(resp.data.collections) THEN Return(ch, tk, "KeyError")
    ELSE LET collections == <<Sentinel>> \o Names(resp.data.collections) IN
         Return(SetEnt(ch, tk.ent,
                       MarkUpdated([e EXCEPT
                                      !.available_options = collections])),
                tk, "None")

\* ImouSelect.async_update after the await of line 238, lines 239-252
select_update_resume(ch, tk, resp) ==
    LET e == GetEnt(ch, tk.ent) IN
    IF resp.exc # "none" THEN Return(ch, tk, resp.exc)
    ELSE IF ~HasKey(resp.data, "collections") THEN Return(ch, tk, "KeyError")
    ELSE IF ~AllNamed(resp.data.collections) THEN Return(ch, tk, "KeyError")
    ELSE LET collections == <<Sentinel>> \o Names(resp.data.collections) IN
         Return(SetEnt(ch, tk.ent,
                       MarkUpdated([e EXCEPT
                                      !.available_options = collections,
                                      !.current_option = collections[1]])),
                tk, "None")

\* ImouSelect.async_select_option once ready, lines 271-273
select_option_ready(ch, tk) ==
    LET e == GetEnt(ch, tk.ent) IN
    IF e.sensor_type = "turnCollection"
    THEN Issue(ch, tk, "turnCollection",
               <<e.device_id, e.channel_id, tk.arg>>, "select:273")
    ELSE Return(ch, tk, "None")

\* a variant with line 274 in the place of line 275: the selection stays
select_option_resume_keeps(ch, tk, resp) ==
    LET e == GetEnt(ch, tk.ent) IN
    IF resp.exc # "none" THEN Return(ch, tk, resp.exc)
    ELSE Return(SetEnt(ch, tk.ent, [e EXCEPT !.current_option = tk.arg]),
                tk, "None")

\* ImouSelect.async_select_option after the await of line 273, line 275
select_option_resume(ch, tk, resp) ==
    LET e == GetEnt(ch, tk.ent) IN
    IF resp.exc # "none" THEN Return(ch, tk, resp.exc)
    ELSE IF e.available_options = <<>> THEN Return(ch, tk, "IndexError")
    ELSE Return(SetEnt(ch, tk.ent,
                       [e EXCEPT !.current_option = e.available_options[1]]),
                tk, "None")

\* what each operation does with the answer of _async_is_ready: lines
\* 127-128, 182-183, 233-234, 268-269
is_ready_return(ch, tk, ready) ==
    IF ~ready THEN Return(ch, tk, "None")
    ELSE CASE tk.op = "sensor_update" -> sensor_update_ready(ch, tk)
           [] tk.op = "button_press" -> button_press_ready(ch, tk)
           [] tk.op = "select_update" -> select_update_ready(ch, tk)
           [] tk.op = "select_option" -> select_option_ready(ch, tk)

----------------------------------------------------------------------------
(* Channel operations: channel.py *)

\* a variant that stores the code of the device before it looks for the
\* channel, and leaves it there when the channel is not valid
refresh_status_resume_stores_first(ch, resp) ==
    IF resp.exc # "none" THEN [exc |-> resp.exc, ch |-> ch]
    ELSE LET device_data == resp.data IN
         IF ~HasKey(device_data, "onLine")
               \/ device_data.onLine \notin DOMAIN ONLINE_STATUS
         THEN [exc |-> "InvalidResponse", ch |-> ch]
         ELSE LET ch1 == [ch EXCEPT !.status = device_data.onLine] IN
         IF ~HasKey(device_data, "channels")
         THEN [exc |-> "KeyError", ch |-> ch1]
         ELSE LET found == Matching(device_data.channels, ch.channel_id) IN
              IF found = <<>> \/ ~HasKey(found[1], "onLine")
                    \/ found[1].onLine \notin DOMAIN ONLINE_STATUS
              THEN [exc |-> "InvalidResponse", ch |-> ch1]
              ELSE [exc |-> "none",
                    ch |-> [ch EXCEPT !.status = found[1].onLine]]

\* async_refresh_status after the await of line 256, lines 257-264: the
\* exception raised ("none" when it returns) and the channel afterwards
refresh_status_resume(ch, resp) ==
    IF resp.exc # "none" THEN [exc |-> resp.exc, ch |-> ch]
    ELSE LET device_data == resp.data IN
         IF ~HasKey(device_data, "onLine")
               \/ device_data.onLine \notin DOMAIN ONLINE_STATUS
         THEN [exc |-> "InvalidResponse", ch |-> ch]
         ELSE IF ~HasKey(device_data, "channels")
         THEN [exc |-> "KeyError", ch |-> ch]
         ELSE LET found == Matching(device_data.channels, ch.channel_id) IN
              IF found = <<>> \/ ~HasKey(found[1], "onLine")
                    \/ found[1].onLine \notin DOMAIN ONLINE_STATUS
              THEN [exc |-> "InvalidResponse", ch |-> ch]
              ELSE [exc |-> "none",
                    ch |-> [ch EXCEPT !.status = found[1].onLine]]

\* the task's history of the statuses its refreshes stored
Stored(tk, r) ==
    IF r.exc = "none" THEN [tk EXCEPT !.stored = Append(@, r.ch.status)]
    ELSE tk

\* async_wakeup returns val: to its caller when called directly, to
\* _async_is_ready (lines 90-93) when an entity asked
wakeup_return(ch, tk, val) ==
    LET tk1 == [tk EXCEPT !.awake = val] IN
    IF tk.op = "wakeup" THEN Return(ch, tk1, val)
    ELSE is_ready_return(ch, tk1, val = "True")

\* a variant without the test of line 269
wakeup_begin_unguarded(ch, tk) ==
    Issue(ch, tk, "deviceOnline", <<ch.device_id>>, "wakeup:272")

\* async_wakeup up to its first await, lines 269-272
wakeup_begin(ch, tk) ==
    IF ~ch.sleepable THEN wakeup_return(ch, tk, "True")
    ELSE Issue(ch, tk, "deviceOnline", <<ch.device_id>>, "wakeup:272")

\* async_wakeup after the first refresh, lines 272-277
wakeup_resume_272(ch, tk, resp) ==
    LET r == refresh_status_resume(ch, resp)
        tk1 == Stored(tk, r)
    IN  IF r.exc # "none" THEN Return(r.ch, tk1, r.exc)
        ELSE IF ONLINE_STATUS[r.ch.status] = "Online"
        THEN wakeup_return(r.ch, tk1, "True")
        ELSE Issue(r.ch, tk1, "setDeviceCameraStatus",
                   <<ch.device_id, "closeDormant", "True">>, "wakeup:277")

\* async_wakeup after the close-dormant command, lines 277-279
wakeup_resume_277(ch, tk, resp) ==
    IF resp.exc # "none" THEN Return(ch, tk, resp.exc)
    ELSE Issue(ch, tk, "sleep", <<ch.wait_after_wakeup>>, "wakeup:279")

\* async_wakeup after the settle delay, lines 279-281
wakeup_resume_279(ch, tk, resp) ==
    Issue(ch, tk, "deviceOnline", <<ch.device_id>>, "wakeup:281")

\* async_wakeup after the second refresh, lines 281-286
wakeup_resume_281(ch, tk, resp) ==
    LET r == refresh_status_resume(ch, resp)
        tk1 == Stored(tk, r)
    IN  IF r.exc # "none" THEN Return(r.ch, tk1, r.exc)
        ELSE IF ONLINE_STATUS[r.ch.status] = "Online"
        THEN wakeup_return(r.ch, tk1, "True")
        ELSE wakeup_return(r.ch, tk1, "False")

\* a variant without the test of lines 86-87
is_ready_ignoring_enabled(ch, tk) ==
    LET e == GetEnt(ch, tk.ent) IN
    IF e.has_device THEN wakeup_begin(ch, tk)
    ELSE is_ready_return(ch, tk, TRUE)

\* ImouEntity._async_is_ready, lines 83-94
is_ready(ch, tk) ==
    LET e == GetEnt(ch, tk.ent) IN
    IF ~e.enabled THEN is_ready_return(ch, tk, FALSE)
    ELSE IF e.has_device THEN wakeup_begin(ch, tk)
    ELSE is_ready_return(ch, tk, TRUE)

\* async_refresh_status called directly: after its await, lines 257-264
refresh_status_return(ch, tk, resp) ==
    LET r == refresh_status_resume(ch, resp)
        tk1 == Stored(tk, r)
    IN  IF r.exc # "none" THEN Return(r.ch, tk1, r.exc)
        ELSE Return(r.ch, tk1, "None")

\* async_get_data after the initialization, lines 295-298
get_data_refresh(ch, tk) ==
    Issue(ch, tk, "deviceOnline", <<ch.device_id>>, "get_data:298")

\* a variant that gives up after a failed refresh: the channel is disabled
get_data_resume_298_latching(ch, tk, resp) ==
    LET r == refresh_status_resume(ch, resp)
        tk1 == Stored(tk, r)
    IN  IF r.exc # "none"
        THEN Return([r.ch EXCEPT !.enabled = FALSE], tk1, r.exc)
        ELSE Return(r.ch, tk1, "True")

\* async_get_data after the await of line 298, lines 298-303
get_data_resume_298(ch, tk, resp) ==
    LET r == refresh_status_resume(ch, resp)
        tk1 == Stored(tk, r)
    IN  IF r.exc # "none" THEN Return(r.ch, tk1, r.exc)
        ELSE Return(r.ch, tk1, "True")

\* async_initialize up to its first await, line 176
initialize_begin(ch, tk) ==
    Issue(ch, tk, "deviceBaseDetailList", <<ch.device_id>>, "initialize:176")

\* what the discovery keeps of a channel it has initialized
Summary(ch) ==
    [device_id |-> ch.device_id, channel_id |-> ch.channel_id,
     initialized |-> ch.initialized,
     entities |-> Len(get_all_sensors(ch))]

\* async_discover_channels, lines 350-357: an ImouException is caught and
\* logged, then line 357 returns the local "channels", which is bound only
\* once line 327 has run; any other exception leaves the function
discover_end(ch, tk, exc) ==
    LET tk1 == IF exc \in ImouException
               THEN [tk EXCEPT !.caught = [exc |-> exc, at |-> tk.pc]]
               ELSE tk
    IN  IF exc = "none" \/ exc \in ImouException
        THEN IF tk.channels.bound THEN Return(ch, tk1, "dict")
             ELSE Return(ch, tk1, "UnboundLocalError")
        ELSE Return(ch, tk, exc)

\* the loop of line 328 at the device tk.d, up to the await of line 331
discover_next_device(ch, tk) ==
    IF tk.d > Len(tk.devices) THEN discover_end(ch, tk, "none")
    ELSE IF ~HasKey(tk.devices[tk.d], "deviceId")
    THEN discover_end(ch, tk, "KeyError")
    ELSE Issue(ch, tk, "deviceBaseDetailList",
               <<tk.devices[tk.d].deviceId>>, "discover:331")

\* the loop of line 340 at the channel record tk.c, lines 340-345: a new
\* channel object, and its initialization up to its first await
discover_next_channel(ch, tk) ==
    IF tk.c > Len(tk.chs) THEN discover_next_device(ch, [tk EXCEPT !.d = @ + 1])
    ELSE LET channel_data == tk.chs[tk.c] IN
         IF ~HasKey(channel_data, "deviceId")
               \/ ~HasKey(channel_data, "channelId")
         THEN discover_end(ch, tk, "KeyError")
         ELSE initialize_begin(
                  ImouCamChannel(channel_data.deviceId,
                                 channel_data.channelId), tk)

\* async_discover_channels up to its first await, lines 319-322
discover_begin(ch, tk) ==
    Issue(ch, tk, "deviceBaseList", <<>>, "discover:322")

\* async_discover_channels after the device list lookup, lines 322-331
discover_resume_322(ch, tk, resp) ==
    IF resp.exc # "none" THEN discover_end(ch, tk, resp.exc)
    ELSE LET devices_data == resp.data IN
         IF ~HasKey(devices_data, "deviceList")
               \/ ~HasKey(devices_data, "count")
         THEN discover_end(ch, tk, "InvalidResponse")
         ELSE discover_next_device(ch,
                  [tk EXCEPT !.channels = [bound |-> TRUE, map |-> <<>>],
                             !.devices = devices_data.deviceList,
                             !.d = 1])

\* async_discover_channels after the detail lookup of a device, lines
\* 331-345
discover_resume_331(ch, tk, resp) ==
    IF resp.exc # "none" THEN discover_end(ch, tk, resp.exc)
    ELSE LET device_detailed_data_array == resp.data IN
         IF ~HasKey(device_detailed_data_array, "deviceList")
               \/ Len(device_detailed_data_array.deviceList) # 1
         THEN discover_end(ch, tk, "InvalidResponse")
         ELSE LET device_detailed_data ==
                      device_detailed_data_array.deviceList[1]
              IN  IF ~HasKey(device_detailed_data, "channels")
                  THEN discover_end(ch, tk, "KeyError")
                  ELSE discover_next_channel(ch,
                           [tk EXCEPT !.chs = device_detailed_data.channels,
                                      !.c = 1])

\* async_discover_channels after the initialization of a channel, line
\* 346, and on to the next channel record
discover_resume_345(ch, tk) ==
    discover_next_channel(ch,
        [tk EXCEPT !.channels.map = (get_name(ch) :> Summary(ch)) @@ @,
                   !.c = @ + 1])

\* async_initialize is over (line 252 done): back in its caller
initialize_return(ch, tk) ==
    IF tk.op = "get_data" THEN get_data_refresh(ch, tk)
    ELSE IF tk.op = "discover" THEN discover_resume_345(ch, tk)
    ELSE Return(ch, tk, "None")

\* async_initialize, lines 248-252: an ImouException is caught and logged,
\* any other exception leaves the function; the flag is set at the end
initialize_end(ch, tk, exc) ==
    IF exc = "none" \/ exc \in ImouException
    THEN initialize_return([ch EXCEPT !.initialized = TRUE], tk)
    ELSE Return(ch, tk, exc)

\* a variant that attaches the status sensor before the preset lookup
initialize_resume_176_sensor_first(ch, tk, resp) ==
    IF resp.exc # "none" THEN initialize_end(ch, tk, resp.exc)
    ELSE LET device_array == resp.data IN
    IF ~HasKey(device_array, "deviceList") \/ Len(device_array.deviceList) # 1
    THEN initialize_end(ch, tk, "InvalidResponse")
    ELSE LET device_data == device_array.deviceList[1] IN
    IF ~HasKey(device_data, "name") THEN initialize_end(ch, tk, "KeyError")
    ELSE LET ch1 == [ch EXCEPT !.device_name = device_data.name] IN
    IF ~HasKey(device_data, "deviceModel")
    THEN initialize_end(ch1, tk, "KeyError")
    ELSE LET ch2 == [ch1 EXCEPT !.device_model = device_data.deviceModel] IN
    IF ~HasKey(device_data, "channels") THEN initialize_end(ch2, tk, "KeyError")
    ELSE LET scan == Subscripted(device_data.channels, ch.channel_id)
             found == scan.found
         IN
    IF scan.exc # "none" THEN initialize_end(ch2, tk, scan.exc)
    ELSE IF found = <<>> THEN initialize_end(ch2, tk, "InvalidResponse")
    ELSE IF ~HasKey(found[1], "channelName")
    THEN initialize_end(ch2, tk, "KeyError")
    ELSE LET ch3 == [ch2 EXCEPT
                       !.channel_name = found[1].channelName,
                       !.full_name =
                           ch2.device_name \o " - " \o found[1].channelName]
         IN  Issue(add_sensor_instance(ch3, "sensor",
                       ImouSensor(ch.device_id, ch.channel_id, "status", "")),
                   tk, "getCollection", <<ch.device_id, ch.channel_id>>,
                   "initialize:197")

\* async_initialize after the device detail lookup, lines 177-197
initialize_resume_176(ch, tk, resp) ==
    IF resp.exc # "none" THEN initialize_end(ch, tk, resp.exc)
    ELSE LET device_array == resp.data IN
    IF ~HasKey(device_array, "deviceList") \/ Len(device_array.deviceList) # 1
    THEN initialize_end(ch, tk, "InvalidResponse")
    ELSE LET device_data == device_array.deviceList[1] IN
    IF ~HasKey(device_data, "name") THEN initialize_end(ch, tk, "KeyError")
    ELSE LET ch1 == [ch EXCEPT !.device_name = device_data.name] IN
    IF ~HasKey(device_data, "deviceModel")
    THEN initialize_end(ch1, tk, "KeyError")
    ELSE LET ch2 == [ch1 EXCEPT !.device_model = device_data.deviceModel] IN
    IF ~HasKey(device_data, "channels") THEN initialize_end(ch2, tk, "KeyError")
    ELSE LET scan == Subscripted(device_data.channels, ch.channel_id)
             found == scan.found
         IN
    IF scan.exc # "none" THEN initialize_end(ch2, tk, scan.exc)
    ELSE IF found = <<>> THEN initialize_end(ch2, tk, "InvalidResponse")
    ELSE IF ~HasKey(found[1], "channelName")
    THEN initialize_end(ch2, tk, "KeyError")
    ELSE LET ch3 == [ch2 EXCEPT
                       !.channel_name = found[1].channelName,
                       !.full_name =
                           ch2.device_name \o " - " \o found[1].channelName]
         IN  Issue(ch3, tk, "getCollection", <<ch.device_id, ch.channel_id>>,
                   "initialize:197")

\* the loop of lines 225-235 over the presets from the i-th on: a button
\* per preset, until a preset without a name raises KeyError
RECURSIVE add_collection_buttons(_, _)
add_collection_buttons(ch, i) ==
    IF i > Len(ch.collections) THEN [exc |-> "none", ch |-> ch]
    ELSE IF ~HasKey(ch.collections[i], "name")
    THEN [exc |-> "KeyError", ch |-> ch]
    ELSE add_collection_buttons(
             add_sensor_instance(ch, "button",
                 ImouButton(ch.device_id, ch.channel_id, "turnCollection",
                            ch.collections[i].name)),
             i + 1)

\* a variant that adds the buttons of the presets before the restart button
initialize_resume_197_presets_first(ch, tk, resp) ==
    IF resp.exc # "none" THEN initialize_end(ch, tk, resp.exc)
    ELSE LET favourites == resp.data IN
    IF ~HasKey(favourites, "collections") THEN initialize_end(ch, tk, "KeyError")
    ELSE LET ch1 == [ch EXCEPT !.collections = favourites.collections]
             ch2 == add_sensor_instance(ch1, "sensor",
                        ImouSensor(ch.device_id, ch.channel_id, "status", ""))
             r == add_collection_buttons(ch2, 1)
             ch3 == add_sensor_instance(r.ch, "button",
                        ImouButton(ch.device_id, ch.channel_id,
                                   "restartDevice", ""))
         IN  IF r.exc # "none" THEN initialize_end(r.ch, tk, r.exc)
             ELSE initialize_end(
                      add_sensor_instance(ch3, "select",
                          ImouSelect(ch.device_id, ch.channel_id,
                                     "turnCollection", "")),
                      tk, "none")

\* async_initialize after the preset lookup, lines 198-252
initialize_resume_197(ch, tk, resp) ==
    IF resp.exc # "none" THEN initialize_end(ch, tk, resp.exc)
    ELSE LET favourites == resp.data IN
    IF ~HasKey(favourites, "collections") THEN initialize_end(ch, tk, "KeyError")
    ELSE LET ch1 == [ch EXCEPT !.collections = favourites.collections]
             ch2 == add_sensor_instance(ch1, "sensor",
                        ImouSensor(ch.device_id, ch.channel_id, "status", ""))
             ch3 == add_sensor_instance(ch2, "button",
                        ImouButton(ch.device_id, ch.channel_id,
                                   "restartDevice", ""))
             r == add_collection_buttons(ch3, 1)
         IN  IF r.exc # "none" THEN initialize_end(r.ch, tk, r.exc)
             ELSE initialize_end(
                      add_sensor_instance(r.ch, "select",
                          ImouSelect(ch.device_id, ch.channel_id,
                                     "turnCollection", "")),
                      tk, "none")

\* a variant without the test of lines 290-291
get_data_begin_ignoring_enabled(ch, tk) ==
    IF ~ch.initialized THEN initialize_begin(ch, tk)
    ELSE get_data_refresh(ch, tk)

\* async_get_data up to its first await, lines 290-298
get_data_begin(ch, tk) ==
    IF ~ch.enabled THEN Return(ch, tk, "False")
    ELSE IF ~ch.initialized THEN initialize_begin(ch, tk)
    ELSE get_data_refresh(ch, tk)

----------------------------------------------------------------------------
(* The state machine *)

\* the answers the remote side may give to the call a task awaits
Answers(pc) ==
    CASE pc \in {"wakeup:272", "wakeup:281", "get_data:298",
                 "refresh_status:256", "sensor:133"} ->
             Failures \cup {Ok(d) : d \in OnlinePayloads}
      [] pc = "initialize:176" ->
             Failures \cup {Ok(d) : d \in DetailPayloads}
      [] pc \in {"initialize:197", "select:238"} ->
             Failures \cup {Ok(d) : d \in CollectionPayloads}
      [] pc \in {"wakeup:277", "button:187", "button:191", "select:273"} ->
             Failures \cup {Ok(NoData)}
      [] pc = "wakeup:279" -> {Ok(NoData)}

\* the coroutine continues after the await it was suspended at
Continue(ch, tk, resp) ==
    CASE tk.pc = "wakeup:272" -> wakeup_resume_272(ch, tk, resp)
      [] tk.pc = "wakeup:277" -> wakeup_resume_277(ch, tk, resp)
      [] tk.pc = "wakeup:279" -> wakeup_resume_279(ch, tk, resp)
      [] tk.pc = "wakeup:281" -> wakeup_resume_281(ch, tk, resp)
      [] tk.pc = "refresh_status:256" -> refresh_status_return(ch, tk, resp)
      [] tk.pc = "get_data:298" -> get_data_resume_298(ch, tk, resp)
      [] tk.pc = "initialize:176" -> initialize_resume_176(ch, tk, resp)
      [] tk.pc = "initialize:197" -> initialize_resume_197(ch, tk, resp)
      [] tk.pc = "sensor:133" -> sensor_update_resume(ch, tk, resp)
      [] tk.pc \in {"button:187", "button:191"} ->
             button_press_resume(ch, tk, resp)
      [] tk.pc = "select:238" -> select_update_resume(ch, tk, resp)
      [] tk.pc = "select:273" -> select_option_resume(ch, tk, resp)
      [] tk.pc = "discover:322" -> discover_resume_322(ch, tk, resp)
      [] tk.pc = "discover:331" -> discover_resume_331(ch, tk, resp)

Threads == DOMAIN task
Free(t) == task[t].pc \in {"idle", "done"}
Suspended(t) == ~Free(t)

\* a fresh invocation of op by a task
Start(op, ent, arg) ==
    [IdleTask EXCEPT
        !.op = op, !.pc = "running", !.ent = ent, !.arg = arg,
        !.enabled0 = IF ent = NoEnt THEN "none"
                     ELSE IF GetEnt(chan, ent).enabled THEN "True"
                     ELSE "False"]

\* the attributes of the channel in which a and b differ
Changed(a, b) == {f \in DOMAIN a : a[f] # b[f]}

\* task t has run a piece of its coroutine, which led to out
Step(t, out) ==
    /\ chan' = out.ch
    /\ task' = [task EXCEPT
                  ![t] = [out.tk EXCEPT
                            !.touched = @ \cup Changed(chan, out.ch)]]

\* the direct calls of the owner of the channel; once the entities are
\* with the platforms, the host reaches the channel through its coordinator
\* and its entities only (coordinator.py line 43, button.py line 39)
CallWakeup(t) ==
    /\ Free(t)
    /\ ~forwarded
    /\ Step(t, wakeup_begin(chan, Start("wakeup", NoEnt, "")))
    /\ UNCHANGED <<inits, forwarded>>

CallRefreshStatus(t) ==
    /\ Free(t)
    /\ ~forwarded
    /\ Step(t, Issue(chan, Start("refresh_status", NoEnt, ""),
                     "deviceOnline", <<chan.device_id>>, "refresh_status:256"))
    /\ UNCHANGED <<inits, forwarded>>

\* async_initialize called by the owner of the channel; once the entities
\* are with the platforms the host does not call it again
CallInitialize(t) ==
    /\ Free(t)
    /\ ~forwarded
    /\ inits.eager + inits.lazy < MaxInit
    /\ Step(t, initialize_begin(chan, Start("initialize", NoEnt, "")))
    /\ inits' = [inits EXCEPT !.eager = @ + 1]
    /\ UNCHANGED forwarded

CallGetData(t) ==
    /\ Free(t)
    /\ (chan.enabled /\ ~chan.initialized) => inits.eager + inits.lazy < MaxInit
    /\ Step(t, get_data_begin(chan, Start("get_data", NoEnt, "")))
    /\ inits' = IF chan.enabled /\ ~chan.initialized
                THEN [inits EXCEPT !.lazy = @ + 1]
                ELSE inits
    /\ UNCHANGED forwarded

\* is_online, a synchronous getter
CallIsOnline(t) ==
    /\ Free(t)
    /\ Step(t, Return(chan, Start("is_online", NoEnt, ""), is_online(chan)))
    /\ UNCHANGED <<inits, forwarded>>

\* ImouDataUpdateCoordinator._async_update_data, coordinator.py lines
\* 40-46: what a refresh cycle reports for an outcome of async_get_data
async_update_data(outcome) ==
    IF outcome \in ImouException THEN "UpdateFailed" ELSE outcome

\* set_enabled, lines 96-98
SetEnabled(v) ==
    /\ chan.enabled # v
    /\ chan' = [chan EXCEPT !.enabled = v]
    /\ UNCHANGED <<task, inits, forwarded>>

\* set_name, lines 92-94: the setup names the channel it has just built,
\* before it initializes it (__init__.py lines 73-75)
SetName(name) ==
    /\ ~forwarded
    /\ inits = [eager |-> 0, lazy |-> 0]
    /\ \A t \in Threads : task[t].pc = "idle"
    /\ chan.given_name # name
    /\ chan' = [chan EXCEPT !.given_name = name]
    /\ UNCHANGED <<task, inits, forwarded>>

\* the name an entry gives its channel (config_flow.py stores one)
GivenName == "Porch"

\* the delay an entry's options may ask for
LongWait == 7

\* set_wait_after_wakeup, lines 116-118: the setup sets the delay the
\* options of the entry give, before it initializes the channel
\* (__init__.py lines 84-87)
SetWaitAfterWakeup(value) ==
    /\ ~forwarded
    /\ inits = [eager |-> 0, lazy |-> 0]
    /\ \A t \in Threads : task[t].pc = "idle"
    /\ chan.wait_after_wakeup # value
    /\ chan' = [chan EXCEPT !.wait_after_wakeup = value]
    /\ UNCHANGED <<task, inits, forwarded>>

\* the loop of __init__.py lines 96-97: set_enabled(False) on every entity
DisableAll(ch) ==
    [ch EXCEPT
        !.sensor_instances =
            [p \in Platforms |->
                [i \in 1..Len(ch.sensor_instances[p]) |->
                    [ch.sensor_instances[p][i] EXCEPT !.enabled = FALSE]]]]

\* async_setup_entry once async_initialize has returned to it, __init__.py
\* lines 95-104, up to the first await of the refresh: every entity is
\* disabled, then the coordinator runs its first refresh cycle
FirstRefresh(t) ==
    /\ ~forwarded
    /\ inits = [eager |-> 1, lazy |-> 0]
    /\ task[t].op = "initialize" /\ task[t].pc = "done"
    /\ task[t].result = "None"
    /\ Step(t, get_data_begin(DisableAll(chan),
                               Start("get_data", NoEnt, "setup")))
    /\ UNCHANGED <<inits, forwarded>>

\* the end of async_setup_entry, __init__.py lines 105-114: the first
\* refresh raised nothing (last_update_success), so the coordinator is
\* stored and the entities are handed to the platforms
ForwardPlatforms ==
    /\ ~forwarded
    /\ \E t \in Threads :
           /\ task[t].op = "get_data" /\ task[t].arg = "setup"
           /\ task[t].pc = "done"
           /\ async_update_data(task[t].result) \in {"True", "False"}
    /\ forwarded' = TRUE
    /\ UNCHANGED <<chan, task, inits>>

\* the entities the host has enabled at some time, or has an operation
\* in flight on
Engaged(ch) ==
    {r \in EntityRefs(ch) :
        \/ GetEnt(ch, r).enabled
        \/ GetEnt(ch, r).updated
        \/ \E t \in Threads : Suspended(t) /\ task[t].ent = r}

\* ImouEntity.set_enabled, channel_entity.py lines 63-65: the host enables
\* an entity it adds and disables one it removes
EntitySetEnabled(ref, v) ==
    /\ forwarded
    /\ GetEnt(chan, ref).enabled # v
    /\ v => Cardinality(Engaged(chan) \cup {ref}) <= MaxActive
    /\ chan' = SetEnt(chan, ref, [GetEnt(chan, ref) EXCEPT !.enabled = v])
    /\ UNCHANGED <<task, inits, forwarded>>

\* ImouSensor.async_update, from line 127
SensorUpdate(t, ref) ==
    /\ forwarded
    /\ Free(t)
    /\ ref.platform = "sensor"
    /\ Step(t, is_ready(chan, Start("sensor_update", ref, "")))
    /\ UNCHANGED <<inits, forwarded>>

\* ImouButton.async_press, from line 182
ButtonPress(t, ref) ==
    /\ forwarded
    /\ Free(t)
    /\ ref.platform = "button"
    /\ Step(t, is_ready(chan, Start("button_press", ref, "")))
    /\ UNCHANGED <<inits, forwarded>>

\* ImouSelect.async_update, from line 233
SelectUpdate(t, ref) ==
    /\ forwarded
    /\ Free(t)
    /\ ref.platform = "select"
    /\ Step(t, is_ready(chan, Start("select_update", ref, "")))
    /\ UNCHANGED <<inits, forwarded>>

\* ImouSelect.async_select_option up to its first await, lines 265-269
select_option_begin(ch, tk, option) ==
    LET e == GetEnt(ch, tk.ent) IN
    IF e.available_options = <<>> THEN Return(ch, tk, "IndexError")
    ELSE IF option = e.available_options[1] THEN Return(ch, tk, "None")
    ELSE is_ready(ch, tk)

SelectOption(t, ref, option) ==
    /\ forwarded
    /\ Free(t)
    /\ ref.platform = "select"
    /\ Step(t, select_option_begin(chan, Start("select_option", ref, option),
                                   option))
    /\ UNCHANGED <<inits, forwarded>>

\* the remote call (or the delay) task t awaits is over; with keep, the
\* answer is kept in the history of the task
Resume(t, keep) ==
    /\ Suspended(t)
    /\ \E resp \in Answers(task[t].pc) :
           Step(t, Continue(chan,
                            IF keep THEN [task[t] EXCEPT !.resp = resp]
                            ELSE task[t],
                            resp))
    /\ UNCHANGED <<inits, forwarded>>

AwaitReturns(t) == Resume(t, FALSE)

\* the same step, observed: the answer is kept
AwaitReturnsObserved(t) == Resume(t, TRUE)

Options == {Sentinel} \cup PresetNames

\* the channel as its constructor leaves it
Init ==
    /\ chan = ImouCamChannel(DeviceId, ChannelId)
    /\ task = [t \in OneTask |-> IdleTask]
    /\ inits = [eager |-> 0, lazy |-> 0]
    /\ forwarded = FALSE

Next ==
    \/ \E t \in Threads : CallWakeup(t)
    \/ \E t \in Threads : CallRefreshStatus(t)
    \/ \E t \in Threads : CallInitialize(t)
    \/ \E t \in Threads : CallGetData(t)
    \/ \E t \in Threads : CallIsOnline(t)
    \/ \E v \in BOOLEAN : SetEnabled(v)
    \/ SetName(GivenName)
    \/ SetWaitAfterWakeup(LongWait)
    \/ \E t \in Threads : FirstRefresh(t)
    \/ ForwardPlatforms
    \/ \E ref \in EntityRefs(chan), v \in BOOLEAN : EntitySetEnabled(ref, v)
    \/ \E t \in Threads, ref \in EntityRefs(chan) : SensorUpdate(t, ref)
    \/ \E t \in Threads, ref \in EntityRefs(chan) : ButtonPress(t, ref)
    \/ \E t \in Threads, ref \in EntityRefs(chan) : SelectUpdate(t, ref)
    \/ \E t \in Threads, ref \in EntityRefs(chan), o \in Options :
           SelectOption(t, ref, o)
    \/ \E t \in Threads : AwaitReturns(t)

\* the status operations of the channel, every answer observed
NextObserved ==
    \/ \E t \in Threads : CallRefreshStatus(t)
    \/ \E t \in Threads : CallIsOnline(t)
    \/ \E t \in Threads : AwaitReturnsObserved(t)

\* the initialization of the channel, every answer observed
NextInitObserved ==
    \/ \E t \in Threads : CallInitialize(t)
    \/ \E t \in Threads : AwaitReturnsObserved(t)

Spec == Init /\ [][Next]_vars
SpecObserved == Init /\ [][NextObserved]_vars
SpecInitObserved == Init /\ [][NextInitObserved]_vars
\* the channel in the hands of its owner, before any hand-off to the
\* platforms: the calls of its interface, every awaited call returning in
\* the end
NextChannel ==
    \/ \E t \in Threads : CallWakeup(t)
    \/ \E t \in Threads : CallRefreshStatus(t)
    \/ \E t \in Threads : CallInitialize(t)
    \/ \E t \in Threads : CallGetData(t)
    \/ \E t \in Threads : CallIsOnline(t)
    \/ \E v \in BOOLEAN : SetEnabled(v)
    \/ SetName(GivenName)
    \/ SetWaitAfterWakeup(LongWait)
    \/ \E t \in Threads : AwaitReturns(t)

SpecChannel ==
    /\ Init
    /\ [][NextChannel]_vars
    /\ \A t \in OneTask : WF_vars(AwaitReturns(t))

\* the setup of the host and the entities in its hands afterwards: the
\* initialization and the first refresh (__init__.py lines 89-104), the
\* hand-off, then the operations of the entities
NextEntities ==
    \/ SetName(GivenName)
    \/ SetWaitAfterWakeup(LongWait)
    \/ \E t \in Threads : CallInitialize(t)
    \/ \E t \in Threads : FirstRefresh(t)
    \/ ForwardPlatforms
    \/ \E ref \in EntityRefs(chan), v \in BOOLEAN : EntitySetEnabled(ref, v)
    \/ \E t \in Threads, ref \in EntityRefs(chan) : SensorUpdate(t, ref)
    \/ \E t \in Threads, ref \in EntityRefs(chan) : ButtonPress(t, ref)
    \/ \E t \in Threads, ref \in EntityRefs(chan) : SelectUpdate(t, ref)
    \/ \E t \in Threads, ref \in EntityRefs(chan), o \in Options :
           SelectOption(t, ref, o)
    \/ \E t \in Threads : AwaitReturns(t)

\* the same setup, then the select in the hands of the host, every answer
\* observed
NextSelectObserved ==
    \/ SetName(GivenName)
    \/ SetWaitAfterWakeup(LongWait)
    \/ \E t \in Threads : CallInitialize(t)
    \/ \E t \in Threads : FirstRefresh(t)
    \/ ForwardPlatforms
    \/ \E ref \in EntityRefs(chan), v \in BOOLEAN : EntitySetEnabled(ref, v)
    \/ \E t \in Threads, ref \in EntityRefs(chan) : SelectUpdate(t, ref)
    \/ \E t \in Threads, ref \in EntityRefs(chan), o \in Options :
           SelectOption(t, ref, o)
    \/ \E t \in Threads : AwaitReturnsObserved(t)

\* the same setup, then the sensor in the hands of the host, every answer
\* observed
NextSensorObserved ==
    \/ SetName(GivenName)
    \/ SetWaitAfterWakeup(LongWait)
    \/ \E t \in Threads : CallInitialize(t)
    \/ \E t \in Threads : FirstRefresh(t)
    \/ ForwardPlatforms
    \/ \E ref \in EntityRefs(chan), v \in BOOLEAN : EntitySetEnabled(ref, v)
    \/ \E t \in Threads, ref \in EntityRefs(chan) : SensorUpdate(t, ref)
    \/ \E t \in Threads : AwaitReturnsObserved(t)

SpecSelectObserved == Init /\ [][NextSelectObserved]_vars
SpecSensorObserved == Init /\ [][NextSensorObserved]_vars
SpecEntities == Init /\ [][NextEntities]_vars
\* two tasks of the event loop on a channel that cannot sleep
InitTwo ==
    /\ chan = ImouCamChannel(DeviceId, ChannelId)
    /\ task = [t \in TwoTasks |-> IdleTask]
    /\ inits = [eager |-> 0, lazy |-> 0]
    /\ forwarded = FALSE

\* ImouDataUpdateCoordinator._async_update_data, coordinator.py lines
\* 40-46, around the piece of async_get_data that has just run: what the
\* call returned or raised is reported once the call is over
update_data(out) ==
    IF out.tk.pc = "done"
    THEN [out EXCEPT !.tk.result = async_update_data(@)]
    ELSE out

\* the coordinator starts a refresh cycle, coordinator.py line 43 up to
\* the first await of async_get_data
UpdateData(t) ==
    /\ Free(t)
    /\ (chan.enabled /\ ~chan.initialized) => inits.eager + inits.lazy < MaxInit
    /\ Step(t, update_data(get_data_begin(chan,
                                           Start("get_data", NoEnt, "cycle"))))
    /\ inits' = IF chan.enabled /\ ~chan.initialized
                THEN [inits EXCEPT !.lazy = @ + 1]
                ELSE inits
    /\ UNCHANGED forwarded

\* the answers the lookups of a cycle are drawn with: every answer for the
\* refresh, and for each lookup of the initialization one answer per way
\* async_initialize ends (a domain error it catches, a missing field that
\* makes it leave with a KeyError before or amid its entities, an answer
\* it goes on with)
CycleAnswers(pc) ==
    CASE pc = "initialize:176" ->
             {Raises("APIError"), Ok([deviceList |-> <<GoodDevice>>]),
              Ok([deviceList |-> <<[deviceModel |-> "X1",
                                    channels |-> GoodDevice.channels]>>])}
      [] pc = "initialize:197" ->
             {Raises("InvalidResponse"), Ok([collections |-> Ascending(1)]),
              Ok([collections |-> HalfNamed]), Ok([count |-> 0])}
      [] OTHER -> Answers(pc)

\* the remote call a refresh cycle awaits is over, the answer observed
UpdateDataResumes(t) ==
    /\ Suspended(t)
    /\ task[t].arg = "cycle"
    /\ \E resp \in CycleAnswers(task[t].pc) :
           Step(t, update_data(Continue(chan,
                                        [task[t] EXCEPT !.resp = resp],
                                        resp)))
    /\ UNCHANGED <<inits, forwarded>>

\* the refresh cycles of the coordinator, each in a task of its own: either
\* task starts a cycle whenever it is free, also while the other one is
\* suspended in its initialization or at its refresh, and the owner of the
\* channel enables and disables it at any time
NextCycles ==
    \/ \E t \in Threads : UpdateData(t)
    \/ \E v \in BOOLEAN : SetEnabled(v)
    \/ \E t \in Threads : UpdateDataResumes(t)

SpecCycles == InitTwo /\ [][NextCycles]_vars

----------------------------------------------------------------------------
(* The discovery service: ImouDiscoverService, channel.py lines 305-357.   *)
(* The task of the discovery carries its locals: the device list, the      *)
(* position in it, the channel records of the device at hand, the position *)
(* in them, and the mapping "channels" (bound once line 327 has run);      *)
(* caught is the ImouException its handlers caught and the await it came   *)
(* from, answered whether every lookup so far returned what was asked.     *)
(* chan is the channel object the discovery is initializing.               *)

DiscoverTask ==
    Start("discover", NoEnt, "")
        @@ [devices |-> <<>>, d |-> 0, chs |-> <<>>, c |-> 0,
            channels |-> [bound |-> FALSE, map |-> <<>>],
            caught |-> [exc |-> "none", at |-> ""], answered |-> TRUE]

\* the answers of the cloud to the call the discovery awaits: a failure,
\* or the state of the account; a device the cloud does not recognize
\* has an empty detail list
DiscoveryAnswers(ch, tk) ==
    CASE tk.pc = "discover:322" ->
             Failures \cup {Ok(d) : d \in DeviceListPayloads}
      [] tk.pc = "discover:331" ->
             LET id == tk.devices[tk.d].deviceId IN
             Failures \cup {Ok([deviceList |-> <<DeviceDetail(id)>>]),
                            Ok([deviceList |-> <<BareDetail(id)>>]),
                            Ok([deviceList |-> <<>>])}
      [] tk.pc = "initialize:176" ->
             Failures \cup {Ok([deviceList |-> <<DeviceDetail(ch.device_id)>>])}
      [] tk.pc = "initialize:197" ->
             Failures \cup {Ok([collections |-> Ascending(n)]) : n \in 0..1}

CallDiscover(t) ==
    /\ task[t].pc = "idle"
    /\ Step(t, discover_begin(chan, DiscoverTask))
    /\ UNCHANGED <<inits, forwarded>>

\* the lookup returned what it was asked for: no failure, a device list
\* with its count, the detail of one device
Answered(pc, resp) ==
    /\ resp.exc = "none"
    /\ pc = "discover:322" =>
           HasKey(resp.data, "deviceList") /\ HasKey(resp.data, "count")
    /\ pc \in {"discover:331", "initialize:176"} =>
           HasKey(resp.data, "deviceList") /\ Len(resp.data.deviceList) = 1
    /\ pc = "initialize:197" => HasKey(resp.data, "collections")

\* the call the discovery awaits is over; the task keeps the answer, and
\* whether every lookup so far returned what it was asked for
DiscoveryAwaitReturns(t) ==
    /\ Suspended(t)
    /\ task[t].op = "discover"
    /\ \E resp \in DiscoveryAnswers(chan, task[t]) :
           Step(t, Continue(chan,
                            [task[t] EXCEPT
                                !.resp = resp,
                                !.answered = @ /\ Answered(task[t].pc, resp)],
                            resp))
    /\ UNCHANGED <<inits, forwarded>>

NextDiscovery ==
    \/ \E t \in Threads : CallDiscover(t)
    \/ \E t \in Threads : DiscoveryAwaitReturns(t)

SpecDiscovery == Init /\ [][NextDiscovery]_vars

----------------------------------------------------------------------------
(* Properties *)

Labels == {ONLINE_STATUS[c] : c \in DOMAIN ONLINE_STATUS}

Done(t, op) == task[t].op = op /\ task[t].pc = "done"

\* how many times an invocation issued a call
Count(tk, api) == Len(SelectSeq(tk.calls, LAMBDA c : c.api = api))

\* the operations that run async_wakeup: itself, and the readiness gate
WakeOps ==
    {"wakeup", "sensor_update", "button_press", "select_update",
     "select_option"}

\* C1: on a channel that cannot sleep, a call of wakeup() is over at once,
\* returns true, has issued no remote call and no delay, and has changed
\* nothing of the channel, its status included
C1_WakeupOfRegularDevice ==
    \A t \in Threads :
        (task[t].op = "wakeup" /\ ~chan.sleepable) =>
            /\ task[t].pc = "done"
            /\ task[t].result = "True"
            /\ task[t].calls = <<>>
            /\ task[t].touched = {}

\* a wakeup() that returned on a regular channel whose status is dormant
C1_Witness ==
    \E t \in Threads :
        /\ Done(t, "wakeup") /\ ~chan.sleepable
        /\ task[t].result = "True"
        /\ chan.status = "4"

\* the awaits of the calls the entities exist for: the status lookup of the
\* sensor, the restart and the move of the buttons, the preset lookup and
\* the move of the select
\* the awaits of the remote calls the entity operations are for
SemanticAwaits ==
    {"sensor:133", "button:187", "button:191", "select:238", "select:273"}

EntityOps == WakeOps \ {"wakeup"}

\* C5: an entity operation waits for its own remote call only if the
\* entity was enabled when the operation was called and the wakeup() of
\* its channel has returned true to it; called on a disabled entity it
\* issues no call at all and is over at once
C5_ReadinessGate ==
    \A t \in Threads :
        LET tk == task[t] IN
        tk.op \in EntityOps =>
            /\ tk.pc \in SemanticAwaits =>
                   tk.enabled0 = "True" /\ tk.awake = "True"
            /\ tk.awake = "False" =>
                   tk.pc = "done" /\ Count(tk, "turnCollection") = 0
                       /\ Count(tk, "restartDevice") = 0
                       /\ Count(tk, "getCollection") = 0
                       /\ Count(tk, "deviceOnline") = 2
            /\ tk.enabled0 = "False" => tk.calls = <<>> /\ tk.pc = "done"

\* a press of a button that moves the camera, of an enabled entity: the
\* wakeup() of its channel returned true and the command is its only call
C5_Witness ==
    \E t \in Threads :
        /\ task[t].op = "button_press" /\ task[t].pc = "button:191"
        /\ task[t].enabled0 = "True" /\ task[t].awake = "True"
        /\ Len(task[t].calls) = 1
        /\ task[t].calls[1].api = "turnCollection"

\* the payload a refresh received names a recognized code for the device
TopRecognized(d) == HasKey(d, "onLine") /\ d.onLine \in DOMAIN ONLINE_STATUS

\* the sub-records of this channel in the payload a refresh received
SubRecords(d) ==
    IF HasKey(d, "channels") THEN Matching(d.channels, ChannelId) ELSE <<>>

\* the payload names a recognized code for this channel
ChannelRecognized(d) ==
    /\ SubRecords(d) # <<>>
    /\ HasKey(SubRecords(d)[1], "onLine")
    /\ SubRecords(d)[1].onLine \in DOMAIN ONLINE_STATUS

\* C6, as claimed: after a refresh_status() that succeeded the stored
\* status is a label, Dormant for a device code "1" and a channel code "4"
C6_StoresLabel ==
    \A t \in Threads :
        (Done(t, "refresh_status") /\ task[t].result = "None") =>
            /\ chan.status \in Labels
            /\ (task[t].resp.data.onLine = "1"
                  /\ SubRecords(task[t].resp.data)[1].onLine = "4")
                   => chan.status = "Dormant"

\* C7: a refresh_status() that received a payload succeeds when the codes
\* of the device and of this channel are both recognized, and otherwise
\* (a code missing or not recognized, no sub-record of the channel) fails
\* with InvalidResponse without a change of the stored status
C7_RefreshOutcome ==
    \A t \in Threads :
        LET tk == task[t] IN
        (Done(t, "refresh_status") /\ tk.resp.exc = "none") =>
            IF TopRecognized(tk.resp.data) /\ ChannelRecognized(tk.resp.data)
            THEN tk.result = "None"
            ELSE tk.result = "InvalidResponse" /\ "status" \notin tk.touched

\* C8: is_online() returns a boolean whenever it is called, the stored
\* status being one the enumeration knows
C8_IsOnlineTotal ==
    /\ chan.status \in Labels \cup DOMAIN ONLINE_STATUS
    /\ \A t \in Threads :
           Done(t, "is_online") =>
               /\ task[t].result \in {"True", "False"}
               /\ task[t].result = "True" <=>
                      ONLINE_STATUS[chan.status] \in {"Online", "Dormant"}

\* C9: a get_data() called on a disabled channel is over at once with
\* false, without a remote call and without a change of the channel (the
\* initialized flag, the entities, the status) or a new initialization
C9_GetDataDisabled ==
    [][\A t \in OneTask :
           (Free(t) /\ ~chan.enabled /\ task'[t] # task[t]
               /\ task'[t].op = "get_data") =>
                  /\ task'[t].pc = "done"
                  /\ task'[t].result = "False"
                  /\ task'[t].calls = <<>>
                  /\ chan' = chan
                  /\ inits' = inits]_vars

\* a get_data() that returned false on a disabled channel never initialized
C9_Witness ==
    \E t \in Threads :
        /\ Done(t, "get_data") /\ task[t].result = "False"
        /\ ~chan.enabled /\ ~chan.initialized
        /\ inits = [eager |-> 0, lazy |-> 0]

\* C10: the calls of get_data() initialize the channel at most once, and
\* never after an initialize() of the owner
C10_InitializedOnce ==
    inits.lazy + (IF inits.eager > 0 THEN 1 ELSE 0) <= 1

\* the identity of an entity within its platform
Ident(e) == <<e.sensor_type, e.sensor_param>>

\* C11: the channel never holds two entities of a platform with the same
\* (type, parameter) identity, also after a second initialize()
C11_NoDuplicateEntities ==
    \A p \in Platforms :
        \A i, j \in 1..Len(chan.sensor_instances[p]) :
            i # j => Ident(chan.sensor_instances[p][i])
                        # Ident(chan.sensor_instances[p][j])

\* C12: an initialize() that is over has returned (raised nothing) and
\* has left the initialized flag true
C12_InitializeSwallowsAll ==
    \A t \in Threads :
        Done(t, "initialize") =>
            task[t].result = "None" /\ chan.initialized

\* the first initialize() of the channel is over and nothing failed in
\* it: both lookups answered, the second one with a preset list
InitializedWell(tk) ==
    /\ tk.op = "initialize" /\ tk.pc = "done" /\ tk.result = "None"
    /\ inits.eager = 1
    /\ Len(tk.calls) = 2
    /\ tk.resp.exc = "none"
    /\ HasKey(tk.resp.data, "collections")

\* C13: after a first initialize() in which nothing failed, on a list of
\* n presets, get_all_sensors() is n+3 entities of this channel: the
\* status sensor, the restartDevice button, a turnCollection button for
\* each preset, in the order of the list and with the name of the preset
\* as parameter, and the turnCollection select
C13_EntitiesInOrder ==
    \A t \in Threads :
        InitializedWell(task[t]) =>
            LET cs == task[t].resp.data.collections
                n == Len(cs)
                all == get_all_sensors(chan)
            IN  /\ chan.collections = cs
                /\ Len(all) = n + 3
                /\ all[1].kind = "sensor" /\ Ident(all[1]) = <<"status", "">>
                /\ all[2].kind = "button"
                /\ Ident(all[2]) = <<"restartDevice", "">>
                /\ \A i \in 1..n :
                       /\ all[2 + i].kind = "button"
                       /\ Ident(all[2 + i]) = <<"turnCollection", cs[i].name>>
                /\ all[n + 3].kind = "select"
                /\ Ident(all[n + 3]) = <<"turnCollection", "">>
                /\ \A i \in 1..(n + 3) :
                       /\ all[i].device_id = chan.device_id
                       /\ all[i].channel_id = chan.channel_id
                       /\ all[i].has_device

\* an initialize() in which nothing failed, on the presets P2 then P1
C13_Witness ==
    \E t \in Threads :
        /\ InitializedWell(task[t])
        /\ task[t].resp.data.collections = Descending(2)
        /\ Len(get_all_sensors(chan)) = 5

\* C14: a Select.update() of a turnCollection select that was ready and
\* returned has set the options to the sentinel followed by the names of
\* the presets the cloud returned, in their order, and the selection to
\* the sentinel
C14_SelectUpdate ==
    \A t \in Threads :
        LET tk == task[t] IN
        (Done(t, "select_update") /\ tk.result = "None"
            /\ Count(tk, "getCollection") = 1) =>
            LET e == GetEnt(chan, tk.ent)
                cs == tk.resp.data.collections
            IN  /\ e.sensor_type = "turnCollection"
                /\ Len(e.available_options) = 1 + Len(cs)
                /\ e.available_options[1] = Sentinel
                /\ \A i \in 1..Len(cs) :
                       e.available_options[1 + i] = cs[i].name
                /\ e.current_option = Sentinel

\* an update that returned on the presets P2 then P1
C14_Witness ==
    \E t \in Threads :
        /\ Done(t, "select_update") /\ task[t].result = "None"
        /\ task[t].resp.data = [collections |-> Descending(2)]
        /\ GetEnt(chan, task[t].ent).available_options
               = <<Sentinel, "P2", "P1">>

\* the elements of a list
Range(seq) == {seq[i] : i \in 1..Len(seq)}

\* C15: a select_option(sentinel) that is over has returned, without a
\* remote call and without a change of the select, whatever the state of
\* the select, one that was never updated included
C15_SelectSentinelNoOp ==
    \A t \in Threads :
        (task[t].op = "select_option" /\ task[t].arg = Sentinel) =>
            /\ task[t].pc = "done"
            /\ task[t].result = "None"
            /\ task[t].calls = <<>>
            /\ task[t].touched = {}

\* C16: every select of the channel has a list of options that starts
\* with the sentinel, and its selection is one of them
C16_SelectOptionsInvariant ==
    \A i \in 1..Len(chan.sensor_instances.select) :
        LET e == chan.sensor_instances.select[i] IN
        /\ e.available_options # <<>>
        /\ e.available_options[1] = Sentinel
        /\ e.current_option \in Range(e.available_options)

\* the gate of the operation of tk let it pass, or stopped it
Ready(tk) == tk.enabled0 = "True" /\ tk.awake = "True"
NotReady(tk) == tk.enabled0 = "False" \/ tk.awake = "False"

\* C17: a select_option(o) that is over, o being an option of the select
\* other than the sentinel: when the select was ready it has issued one
\* move-to-preset call, for the device, the channel and o, and once the
\* call returned the selection is the sentinel; when the select was not
\* ready it has issued no such call and has changed nothing of the select
C17_SelectOption ==
    \A t \in Threads :
        LET tk == task[t]
            e == GetEnt(chan, tk.ent)
        IN  (Done(t, "select_option") /\ tk.arg # Sentinel
                /\ tk.arg \in Range(e.available_options)) =>
                /\ Ready(tk) \/ NotReady(tk)
                /\ Ready(tk) =>
                       /\ Count(tk, "turnCollection") = 1
                       /\ tk.calls[Len(tk.calls)] =
                              [api |-> "turnCollection",
                               args |-> <<e.device_id, e.channel_id, tk.arg>>]
                       /\ tk.result = "None" => e.current_option = Sentinel
                /\ NotReady(tk) =>
                       /\ Count(tk, "turnCollection") = 0
                       /\ tk.result = "None"
                       /\ "sensor_instances" \notin tk.touched

\* a select_option("P2") that returned on a ready select
C17_Witness ==
    \E t \in Threads :
        /\ Done(t, "select_option") /\ task[t].arg = "P2"
        /\ Ready(task[t]) /\ task[t].result = "None"
        /\ Len(task[t].calls) = 1
        /\ GetEnt(chan, task[t].ent).current_option = Sentinel

\* C18: an update() of the status sensor that was ready and has received
\* a payload has returned; the state is the label of the channel code
\* when the device code and the channel code are both recognized, and
\* "Unknown" when one of them is absent or unrecognized
C18_SensorUpdateTotal ==
    \A t \in Threads :
        LET tk == task[t]
            e == GetEnt(chan, tk.ent)
        IN  (Done(t, "sensor_update") /\ Ready(tk)
                /\ Count(tk, "deviceOnline") = 1 /\ tk.resp.exc = "none") =>
                /\ tk.result = "None"
                /\ e.state =
                       IF TopRecognized(tk.resp.data)
                              /\ ChannelRecognized(tk.resp.data)
                       THEN ONLINE_STATUS[SubRecords(tk.resp.data)[1].onLine]
                       ELSE ONLINE_STATUS["UNKNOWN"]

\* the commands a button can issue, as issued by the operation of tk
Commands(tk) == Count(tk, "restartDevice") + Count(tk, "turnCollection")

\* C19: a press() never issues more than one command; a press() that is
\* over on a button that was ready has issued the one command of its type,
\* restart of the device for restartDevice, move to the preset the button
\* is bound to for turnCollection; a press() stopped by the gate has
\* issued none
C19_ButtonPress ==
    \A t \in Threads :
        LET tk == task[t]
            e == GetEnt(chan, tk.ent)
        IN  tk.op = "button_press" =>
                /\ Commands(tk) <= 1
                /\ (tk.pc = "done" /\ Ready(tk)) =>
                       /\ Commands(tk) = 1
                       /\ e.sensor_type = "restartDevice" =>
                              tk.calls[Len(tk.calls)] =
                                  [api |-> "restartDevice",
                                   args |-> <<e.device_id>>]
                       /\ e.sensor_type = "turnCollection" =>
                              tk.calls[Len(tk.calls)] =
                                  [api |-> "turnCollection",
                                   args |-> <<e.device_id, e.channel_id,
                                              e.sensor_param>>]
                /\ NotReady(tk) => Commands(tk) = 0

\* a press() of the button of preset "P2" that returned
C19_Witness ==
    \E t \in Threads :
        /\ Done(t, "button_press") /\ Ready(task[t])
        /\ task[t].result = "None"
        /\ task[t].calls = <<[api |-> "turnCollection",
                              args |-> <<DeviceId, ChannelId, "P2">>]>>

\* the operation of tk is an update or an action that went through the gate
\* and returned
Succeeded(tk) ==
    /\ tk.op \in EntityOps /\ tk.pc = "done"
    /\ Ready(tk) /\ tk.result = "None"
    /\ tk.op = "select_option" => tk.arg # Sentinel

\* is_updated() of the entity of tk
IsUpdated(ch, ref) == GetEnt(ch, ref).updated

\* C20: in every step, an entity that is_updated() stays so; the entity
\* of an update or action that went through the gate and returned
\* is_updated(); and is_updated() becomes true only in the step in which an
\* update, a press or a selection on that entity returns after the gate
\* (so it is false before the first one, and a skipped or failed
\* operation leaves it as it was)
C20_UpdatedFlag ==
    [][/\ \A r \in EntityRefs(chan) :
              /\ r \in EntityRefs(chan')
              /\ IsUpdated(chan, r) => IsUpdated(chan', r)
              /\ (~IsUpdated(chan, r) /\ IsUpdated(chan', r)) =>
                     \E t \in Threads :
                         /\ task[t].pc # "done"
                         /\ Succeeded(task'[t])
                         /\ task'[t].ent = r
       /\ \A r \in EntityRefs(chan') \ EntityRefs(chan) :
              ~IsUpdated(chan', r)
       /\ \A t \in Threads :
              Succeeded(task'[t]) => IsUpdated(chan', task'[t].ent)
      ]_vars

\* a selection of "P1" returned after the gate, and the select is_updated()
C20_Witness ==
    \E t \in Threads :
        /\ Succeeded(task[t])
        /\ task[t].op = "select_option" /\ task[t].arg = "P1"
        /\ IsUpdated(chan, task[t].ent)

\* the key of a channel in the result of the discovery
FullName(id, channel) == DeviceName(id) \o " - " \o channel.channelName

\* the keys of all the channels of the devices ids
ChannelKeys(ids) ==
    UNION {{FullName(id, ChannelsOf(id)[i]) : i \in 1..Len(ChannelsOf(id))} :
              id \in ids}

\* the devices the discovery was given to enumerate
Listed(tk) == {tk.devices[i].deviceId : i \in 1..Len(tk.devices)}

\* the detail lookup of the device at hand was answered InvalidResponse,
\* and every lookup before it returned what it was asked for
OneUnrecognized(tk) ==
    /\ tk.caught = [exc |-> "InvalidResponse", at |-> "discover:331"]
    /\ \A k \in DOMAIN tk.channels.map : tk.channels.map[k].entities >= 3

\* C21: a discovery over three devices, the detail lookup of one of which
\* is answered InvalidResponse, returns the channels of the two others
C21_SkipsOnlyUnrecognized ==
    \A t \in Threads :
        LET tk == task[t] IN
        (Done(t, "discover") /\ Len(tk.devices) = 3 /\ OneUnrecognized(tk)) =>
            /\ tk.result = "dict"
            /\ DOMAIN tk.channels.map =
                   ChannelKeys(Listed(tk) \ {tk.devices[tk.d].deviceId})

\* C22: a discovery one of whose own lookups failed with a domain error
\* other than InvalidResponse returns its mapping, whichever lookup it was
C22_AbortReturnsMapping ==
    \A t \in Threads :
        LET tk == task[t] IN
        (Done(t, "discover")
            /\ tk.caught.exc \in ImouException \ {"InvalidResponse"}) =>
            /\ tk.result = "dict"
            /\ tk.channels.bound

\* C23: a discovery all of whose lookups returned what they were asked for
\* returns one entry per channel of every listed device, under the key
\* "<device name> - <channel name>", the value being an initialized
\* channel with the id of that device and of that channel
C23_DiscoveryResult ==
    \A t \in Threads :
        LET tk == task[t] IN
        (Done(t, "discover") /\ tk.answered) =>
            /\ tk.result = "dict"
            /\ DOMAIN tk.channels.map = ChannelKeys(Listed(tk))
            /\ \A id \in Listed(tk) : \A i \in 1..Len(ChannelsOf(id)) :
                   LET v == tk.channels.map[FullName(id, ChannelsOf(id)[i])]
                   IN  /\ v.device_id = id
                       /\ v.channel_id = ChannelsOf(id)[i].channelId
                       /\ v.initialized

\* the awaits of async_refresh_status: called directly, in wakeup(), in
\* get_data()
RefreshAwaits ==
    {"refresh_status:256", "wakeup:272", "wakeup:281", "get_data:298"}

\* the operation of tk ended with an exception
Raised(tk) ==
    tk.pc = "done"
        /\ tk.result \in ImouException \cup {"KeyError", "IndexError"}

\* the status changes only in a step that ends an await of refresh_status,
\* which stores it; an entity operation on a channel that cannot sleep
\* never changes it
StatusFrame ==
    /\ chan'.status # chan.status =>
           \E t \in Threads :
               /\ task[t].pc \in RefreshAwaits
               /\ task'[t].stored = Append(task[t].stored, chan'.status)
    /\ \A t \in Threads :
           (task'[t].op \in EntityOps /\ ~chan'.sleepable) =>
               "status" \notin task'[t].touched

\* C24: the frame above, and an operation that raised has not changed
\* the status
C24_StatusFrameAnyFailure ==
    [][/\ StatusFrame
       /\ \A t \in Threads :
              Raised(task'[t]) => "status" \notin task'[t].touched
      ]_vars

\* a refresh_status() that raised on a channel whose status an earlier
\* refresh had stored: the status is the one stored before
C24_Witness ==
    \E t \in Threads :
        /\ Done(t, "refresh_status") /\ Raised(task[t])
        /\ "status" \notin task[t].touched
        /\ chan.status = "4"

\* the refresh of a cycle received a payload with recognized codes for
\* the device and for this channel
GoodCycle(tk) ==
    /\ tk.resp.exc = "none"
    /\ TopRecognized(tk.resp.data)
    /\ ChannelRecognized(tk.resp.data)

\* the cycle of t ends in this step: its refresh was answered
CycleEnds(t) ==
    /\ task[t].op = "get_data" /\ task[t].arg = "cycle"
    /\ task[t].pc = "get_data:298" /\ task'[t].pc = "done"

\* t starts a cycle in this step
CycleStarts(t) ==
    /\ Free(t)
    /\ task'[t] # task[t]
    /\ task'[t].op = "get_data" /\ task'[t].arg = "cycle"

\* C26: a refresh cycle whose refresh met a domain error (the remote call
\* raised one) is reported as a failed update, and a cycle reported as a
\* failed update has changed nothing of the channel, which is initialized
\* before and after; a cycle whose refresh received a good payload returns
\* true and stores the channel code of that payload, whatever the cycles
\* before it and beside it did; the enabled flag changes by set_enabled
\* alone and the initialized flag is never taken back, so that a cycle is
\* turned away exactly when set_enabled(False) was the last word
C26_FailureNeverLatches ==
    [][/\ \A t \in Threads :
              CycleEnds(t) =>
                  /\ task'[t].resp.exc \in ImouException =>
                         task'[t].result = "UpdateFailed"
                  /\ task'[t].result = "UpdateFailed" =>
                         chan' = chan /\ chan.initialized
                  /\ GoodCycle(task'[t]) =>
                         /\ task'[t].result = "True"
                         /\ chan'.status =
                                SubRecords(task'[t].resp.data)[1].onLine
                         /\ chan'.initialized
                         /\ chan'.enabled = chan.enabled
       /\ chan'.enabled # chan.enabled => task' = task
       /\ chan.initialized => chan'.initialized
       /\ \A t \in Threads :
              CycleStarts(t) =>
                  /\ ~chan.enabled <=>
                         (task'[t].pc = "done" /\ task'[t].result = "False")
                  /\ chan.enabled => task'[t].pc \notin {"idle", "done"}
      ]_vars

\* a cycle that initialized the channel and then failed in its refresh,
\* reported as a failed update, and a later cycle (the channel being
\* initialized, it went straight to its refresh) that returned true and
\* stored Online on the channel, still enabled
C26_Witness ==
    \E t, u \in Threads :
        /\ Done(t, "get_data") /\ task[t].result = "UpdateFailed"
        /\ Len(task[t].calls) = 3
        /\ Done(u, "get_data") /\ task[u].result = "True"
        /\ Len(task[u].calls) = 1 /\ GoodCycle(task[u])
        /\ chan.status = "1" /\ chan.enabled /\ chan.initialized

\* C27, as claimed: the platforms are forwarded only for a channel whose
\* initialization by the setup found its entities (an initialization whose
\* lookup failed ends initialized with no entity at all)
C27_SetupFailurePreventsReady ==
    forwarded => get_all_sensors(chan) # <<>>

\* the initialization of tk ended by catching a domain error: it returned
\* without its second lookup, or its second lookup failed
Caught(tk) ==
    /\ tk.op = "initialize" /\ tk.pc = "done" /\ tk.result = "None"
    /\ Len(tk.calls) = 1 \/ tk.resp.exc # "none"

\* C28: a first initialization of a channel that caught a domain error
\* ends initialized and with no entity; one that returned, with or
\* without a caught error, leaves no entity or all of them (the status
\* sensor, the restart button, a button per preset, the select)
C28_AllOrNothing ==
    \A t \in Threads :
        (inits.eager = 1 /\ Done(t, "initialize")
            /\ task[t].result = "None") =>
            /\ chan.initialized
            /\ Len(get_all_sensors(chan)) \in {0, Len(chan.collections) + 3}
            /\ Caught(task[t]) => get_all_sensors(chan) = <<>>

\* an initialization whose preset lookup failed: the names are set, the
\* flag is set, no entity is attached
C28_Witness ==
    \E t \in Threads :
        /\ inits.eager = 1 /\ Caught(task[t])
        /\ Len(task[t].calls) = 2 /\ task[t].resp.exc = "APIError"
        /\ chan.full_name = "Home - Cam1"
        /\ chan.initialized /\ get_all_sensors(chan) = <<>>

\* C29: the channel cannot sleep; no operation has sent the close-dormant
\* command or taken the settle delay; the readiness check of an entity
\* that was enabled has not answered false and has made no remote call
\* (no refresh stored, and the only call of the operation is its own)
C29_NeverSleepable ==
    /\ ~chan.sleepable
    /\ \A t \in Threads :
           LET tk == task[t] IN
           /\ Count(tk, "setDeviceCameraStatus") = 0
           /\ Count(tk, "sleep") = 0
           /\ (tk.op \in EntityOps /\ tk.enabled0 = "True") =>
                  /\ tk.awake # "False"
                  /\ tk.op # "select_option" => tk.awake = "True"
                  /\ tk.stored = <<>>
                  /\ Len(tk.calls) <= 1

\* an update of the enabled status sensor that returned: the readiness
\* check answered true and the only call is the lookup of the update
C29_Witness ==
    \E t \in Threads :
        /\ Done(t, "sensor_update") /\ task[t].enabled0 = "True"
        /\ task[t].awake = "True" /\ task[t].result = "None"
        /\ Len(task[t].calls) = 1 /\ task[t].calls[1].api = "deviceOnline"
        /\ ~chan.sleepable

====
